---- MODULE Spec2Model ----
(***************************************************************************)
(* Model of the Homun runtime: built-in indexing, slicing, concatenation   *)
(* and membership (src/builtin.rs), the cached regex matcher (src/re.rs)    *)
(* and the shared priority queue (src/heap.rs).  Every operation is a      *)
(* call; the state records the last call (its name, its arguments and what *)
(* it returned or whether it panicked) next to the state that outlives     *)
(* calls (the regex cache, the queues and the handles to them).            *)
(***************************************************************************)
EXTENDS Integers, Sequences, FiniteSets, TLC

VARIABLES op, args, out, cache, compiles, lookup, heaps, handles, copyOf,
          tpc, tcache, tcompiles

\* The regex cache of the thread, how often Regex::new has returned a matcher
\* for each pattern, and what the last call's cache lookup found.
reVars == <<cache, compiles, lookup>>

\* The shared queues: the heap allocations, the handles that point at them and,
\* for each handle, the handle heap_new() gave and it was copied from.
heapVars == <<heaps, handles, copyOf>>

\* Threads that call the matcher side by side: where each is in its call,
\* the REGEX_CACHE instances, and the Regex::new successes per instance.
thrVars == <<tpc, tcache, tcompiles>>

vars == <<op, args, out, cache, compiles, lookup, heaps, handles, copyOf,
          tpc, tcache, tcompiles>>

(***************************************************************************)
(* Bounds of the model.                                                    *)
(***************************************************************************)
\* Longest Vec the calls are given.
MaxLen == 3
\* Largest |step| below the extreme values.
MaxStep == 3
\* Width, in bits, that the model gives Rust's i32; i64 and usize get twice
\* that, so the three types keep their relative widths and their wrap-around.
IntBits == 4

Elems == {"x", "y"}

Pow2(n) == 2 ^ n

I32_MIN == -Pow2(IntBits - 1)
I32_MAX == Pow2(IntBits - 1) - 1
I64_MIN == -Pow2(2 * IntBits - 1)
I64_MAX == Pow2(2 * IntBits - 1) - 1
USIZE_MOD == Pow2(2 * IntBits)

I32 == I32_MIN..I32_MAX

Min(a, b) == IF a < b THEN a ELSE b
Max(a, b) == IF a > b THEN a ELSE b

\* A conversion that takes the magnitude of a negative value.
AsUsizeMagnitude(x) == IF x < 0 THEN -x ELSE x

\* `x as usize` of a signed value: sign extension, then reinterpretation.
AsUsize(x) == x % USIZE_MOD

\* `x as i32` of a usize: truncation to the low bits, read as signed.
AsI32(x) ==
    LET m == x % Pow2(IntBits)
    IN  IF m > I32_MAX THEN m - Pow2(IntBits) ELSE m

\* Two's-complement wrap of an i64 result (release build arithmetic).
WrapI64(x) ==
    LET m == x % USIZE_MOD
    IN  IF m > I64_MAX THEN m - USIZE_MOD ELSE m

Vecs == UNION {[1..n -> Elems] : n \in 0..MaxLen}

\* What a call hands back: a value, or a panic with its message.
Ret(x) == [panic |-> FALSE, val |-> x]
Panic(msg) == [panic |-> TRUE, val |-> msg]

(***************************************************************************)
(* Indexing: arr[i]                                                        *)
(***************************************************************************)
\* The position `if key < 0 { self.len() as i32 + key } else { key } as usize`.
\* A position that wraps as often as it takes to land inside the Vec.
IdxPosWrapTwice(v, key) ==
    IF Len(v) = 0 THEN 0 ELSE key % Len(v)

IdxPos(v, key) ==
    AsUsize(IF key < 0 THEN AsI32(Len(v)) + key ELSE key)

homun_idx(v, key) ==
    LET i == IdxPos(v, key)
    IN  IF i < Len(v) THEN Ret(v[i + 1]) ELSE Panic("IndexOutOfBounds")

(***************************************************************************)
(* Slicing: arr[a:b:c]                                                     *)
(***************************************************************************)
\* The iterator adaptors the slice is built from, over sequences of indices.
RangeSeq(s, e) == [k \in 1..Max(e - s, 0) |-> s + k - 1]

Rev(q) == [k \in 1..Len(q) |-> q[Len(q) + 1 - k]]

StepBy(q, n) == [k \in 1..((Len(q) + n - 1) \div n) |-> q[(k - 1) * n + 1]]

\* A collect that keeps one element when all the elements taken are equal.
CollectRunsOnce(v, idxs) ==
    LET c == [k \in 1..Len(idxs) |-> v[idxs[k] + 1]]
    IN  IF Len(c) > 1 /\ \A k \in DOMAIN c : c[k] = c[1] THEN <<c[1]>> ELSE c

Collect(v, idxs) == [k \in 1..Len(idxs) |-> v[idxs[k] + 1]]

norm(len, i) ==
    LET j == IF i < 0 THEN len + i ELSE i
    IN  Min(Max(j, 0), len)

\* A forward slice that ignores the step.
SliceForwardStepOne(v, start, end, step) ==
    Collect(v, RangeSeq(norm(Len(v), start), norm(Len(v), end)))

SliceForward(v, start, end, step) ==
    LET s == norm(Len(v), start)
        e == norm(Len(v), end)
    IN  Collect(v, StepBy(RangeSeq(s, e), AsUsize(step)))

\* The lower bound without the i64::MAX sentinel.
LowBoundNoSentinel(len, end) == norm(len, end)

\* The lower bound with the length taken for a sentinel too.
LowBoundLenSentinel(len, end) ==
    IF end = I64_MAX \/ end = len THEN 0 ELSE norm(len, end)

LowBound(len, end) ==
    IF end = I64_MAX THEN 0 ELSE norm(len, end)

HighBound(len, start) ==
    IF start = 0 THEN len ELSE norm(len, start)

\* -step: a debug build panics on overflow, a release build wraps.
SliceBackward(v, start, end, step, checks) ==
    LET s2 == LowBound(Len(v), end)
        e2 == HighBound(Len(v), start)
    IN  IF checks /\ step = I64_MIN
        THEN Panic("attempt to negate with overflow")
        ELSE Ret(Collect(v, StepBy(Rev(RangeSeq(s2, e2)),
                                   AsUsize(WrapI64(-step)))))

\* A slice that treats step 0 like step 1.
SliceZeroStepAsOne(v, start, end, step, checks) ==
    IF step >= 0 THEN Ret(SliceForward(v, start, end, Max(step, 1)))
    ELSE SliceBackward(v, start, end, step, checks)

homun_slice(v, start, end, step, checks) ==
    IF step > 0 THEN Ret(SliceForward(v, start, end, step))
    ELSE IF step < 0 THEN SliceBackward(v, start, end, step, checks)
    ELSE Ret(<<>>)

(***************************************************************************)
(* Vec concat: a + b                                                       *)
(***************************************************************************)
\* A concat with its operands the wrong way round.
ConcatSwapped(a, b) == b \o a

homun_concat(a, b) == a \o b

(***************************************************************************)
(* Membership: x in collection                                             *)
(***************************************************************************)
Keys == Elems \cup {"z"}

\* HashMap<K, V> values: the dict literal's (key, value) pairs as a function.
Maps == UNION {[K -> Keys] : K \in SUBSET Elems}

Sets == SUBSET Elems

RECURSIVE IterAny(_, _, _)
\* iter().any(|s| s == item): the linear scan from position k on.
IterAny(v, item, k) ==
    IF k > Len(v) THEN FALSE
    ELSE IF v[k] = item THEN TRUE
    ELSE IterAny(v, item, k + 1)

\* impl HomunContains<T> for Vec<T>
VecContains(v, item) == IterAny(v, item, 1)

\* impl HomunContains<T> for HashSet<T>
HashSetContains(s, item) == item \in s

\* A lookup that also finds the item among the values.
HashMapContainsValue(m, item) ==
    item \in DOMAIN m \/ \E k \in DOMAIN m : m[k] = item

\* impl HomunContains<K> for HashMap<K, V>
HashMapContains(m, item) == item \in DOMAIN m

\* impl HomunContains<&str> for Vec<String>
VecStringContains(v, item) == IterAny(v, item, 1)

\* impl HomunContains<&str> for HashMap<String, V>
HashMapStringContains(m, item) == item \in DOMAIN m

ContainsKinds == {"Vec", "HashSet", "HashMap", "VecString", "HashMapString"}

Colls(kind) ==
    CASE kind \in {"Vec", "VecString"} -> Vecs
      [] kind = "HashSet" -> Sets
      [] kind \in {"HashMap", "HashMapString"} -> Maps

\* The impl the call site's static types select.
homun_contains(kind, coll, item) ==
    CASE kind = "Vec" -> VecContains(coll, item)
      [] kind = "HashSet" -> HashSetContains(coll, item)
      [] kind = "HashMap" -> HashMapContains(coll, item)
      [] kind = "VecString" -> VecStringContains(coll, item)
      [] kind = "HashMapString" -> HashMapStringContains(coll, item)

(***************************************************************************)
(* Regex patterns and the thread-local cache (src/re.rs)                   *)
(***************************************************************************)
\* Longest text, in bytes, the matcher is given.
MaxText == 3

\* A text is its UTF-8 bytes: "a" is a letter, "1" a digit, and "C3" "A9" are
\* the two bytes of one character (e-acute).
Bytes == {"a", "1", "C3", "A9"}

IsUtf8(t) ==
    \A k \in 1..Len(t) :
        /\ t[k] = "C3" => (k < Len(t) /\ t[k + 1] = "A9")
        /\ t[k] = "A9" => (k > 1 /\ t[k - 1] = "C3")

Texts == {t \in UNION {[1..n -> Bytes] : n \in 0..MaxText} : IsUtf8(t)}

\* str::is_char_boundary, which str's range indexing asserts.
IsCharBoundary(t, i) ==
    i = 0 \/ i = Len(t) \/ (i < Len(t) /\ t[i + 1] # "A9")

\* Bytes of the character whose first byte is b.
Width(b) == IF b = "C3" THEN 2 ELSE 1

Digit == {"1"}
Lower == {"a"}
AnyChar == {"a", "1", "C3"}

\* The pattern strings the calls are given; "[" is not a valid pattern.
Patterns == {"[0-9]+", "[a-z]+", "^[a-z]+", "[0-9]*", ".[0-9]", "["}

\* Regex::new: the compiled program of a pattern, a sequence of items, each
\* the start-of-haystack assertion or a character class with its repetition.
Compile(p) ==
    CASE p = "[0-9]+" -> [ok |-> TRUE, prog |-> <<[q |-> "plus", cls |-> Digit]>>]
      [] p = "[a-z]+" -> [ok |-> TRUE, prog |-> <<[q |-> "plus", cls |-> Lower]>>]
      [] p = "^[a-z]+" -> [ok |-> TRUE,
                           prog |-> <<[q |-> "bol", cls |-> {}],
                                      [q |-> "plus", cls |-> Lower]>>]
      [] p = "[0-9]*" -> [ok |-> TRUE, prog |-> <<[q |-> "star", cls |-> Digit]>>]
      [] p = ".[0-9]" -> [ok |-> TRUE,
                          prog |-> <<[q |-> "one", cls |-> AnyChar],
                                     [q |-> "one", cls |-> Digit]>>]
      [] OTHER -> [ok |-> FALSE, prog |-> <<>>]

RECURSIVE RunEnds(_, _, _)
\* The offsets after 0, 1, 2, ... characters of class cls from offset i.
RunEnds(hay, i, cls) ==
    IF i < Len(hay) /\ hay[i + 1] \in cls
    THEN <<i>> \o RunEnds(hay, i + Width(hay[i + 1]), cls)
    ELSE <<i>>

RECURSIVE MatchEnd(_, _, _, _)
RECURSIVE TryReps(_, _, _, _, _, _)
\* The greedy repetition: the longest run first, then shorter ones, down to
\* the least number of repetitions (ends[j] is the offset after j - 1).
TryReps(prog, k, hay, ends, j, least) ==
    IF j < least + 1 THEN -1
    ELSE LET e == MatchEnd(prog, k + 1, hay, ends[j])
         IN  IF e # -1 THEN e ELSE TryReps(prog, k, hay, ends, j - 1, least)

\* The end offset of the match of prog[k..] that begins at offset i of the
\* haystack, or -1.
MatchEnd(prog, k, hay, i) ==
    IF k > Len(prog) THEN i
    ELSE LET it == prog[k]
         IN  CASE it.q = "bol" ->
                    IF i = 0 THEN MatchEnd(prog, k + 1, hay, i) ELSE -1
               [] it.q = "one" ->
                    IF i < Len(hay) /\ hay[i + 1] \in it.cls
                    THEN MatchEnd(prog, k + 1, hay, i + Width(hay[i + 1]))
                    ELSE -1
               [] it.q = "plus" ->
                    LET ends == RunEnds(hay, i, it.cls)
                    IN  TryReps(prog, k, hay, ends, Len(ends), 1)
               [] it.q = "star" ->
                    LET ends == RunEnds(hay, i, it.cls)
                    IN  TryReps(prog, k, hay, ends, Len(ends), 0)

NoMatch == [some |-> FALSE, start |-> 0, end |-> 0]

RECURSIVE FindFrom(_, _, _)
FindFrom(prog, hay, i) ==
    IF i > Len(hay) THEN NoMatch
    ELSE LET e == MatchEnd(prog, 1, hay, i)
         IN  IF e # -1 THEN [some |-> TRUE, start |-> i, end |-> e]
             ELSE FindFrom(prog, hay,
                           IF i < Len(hay) THEN i + Width(hay[i + 1]) ELSE i + 1)

\* Regex::find: the leftmost match in the haystack.
Find(prog, hay) == FindFrom(prog, hay, 0)

\* Regex::is_match
IsMatch(prog, hay) == Find(prog, hay).some

\* A lookup that takes any cached matcher for the pattern asked for.
GetOrCompileAnyCached(c, pattern) ==
    IF DOMAIN c = {}
    THEN LET re == Compile(pattern)
         IN  IF ~re.ok
             THEN [panic |-> TRUE, re |-> <<>>, cache |-> c,
                   lookup |-> "miss", compiled |-> FALSE]
             ELSE [panic |-> FALSE, re |-> re.prog,
                   cache |-> [p \in {pattern} |-> re.prog],
                   lookup |-> "miss", compiled |-> TRUE]
    ELSE [panic |-> FALSE, re |-> c[CHOOSE p \in DOMAIN c : TRUE], cache |-> c,
          lookup |-> "hit", compiled |-> FALSE]

\* A lookup that compiles the pattern on every call and replaces the entry.
GetOrCompileAlways(c, pattern) ==
    LET re == Compile(pattern)
    IN  IF ~re.ok
        THEN [panic |-> TRUE, re |-> <<>>, cache |-> c,
              lookup |-> "miss", compiled |-> FALSE]
        ELSE [panic |-> FALSE, re |-> re.prog,
              cache |-> [p \in DOMAIN c \cup {pattern} |->
                            IF p = pattern THEN re.prog ELSE c[p]],
              lookup |-> "miss", compiled |-> TRUE]

\* A lookup that caches the failure of an invalid pattern as a matcher that
\* matches nothing.
GetOrCompileCachesInvalid(c, pattern) ==
    IF pattern \notin DOMAIN c
    THEN LET re == Compile(pattern)
             map == [p \in DOMAIN c \cup {pattern} |->
                        IF p = pattern THEN re.prog ELSE c[p]]
         IN  [panic |-> ~re.ok, re |-> map[pattern], cache |-> map,
              lookup |-> "miss", compiled |-> re.ok]
    ELSE [panic |-> FALSE, re |-> c[pattern], cache |-> c,
          lookup |-> "hit", compiled |-> FALSE]

\* The matcher returned (or the panic), the cache the call leaves, what
\* contains_key found and whether Regex::new returned a matcher.
get_or_compile(c, pattern) ==
    IF pattern \notin DOMAIN c
    THEN LET re == Compile(pattern)
         IN  IF ~re.ok
             THEN [panic |-> TRUE, re |-> <<>>, cache |-> c,
                   lookup |-> "miss", compiled |-> FALSE]
             ELSE LET map == [p \in DOMAIN c \cup {pattern} |->
                                 IF p = pattern THEN re.prog ELSE c[p]]
                  IN  [panic |-> FALSE, re |-> map[pattern], cache |-> map,
                       lookup |-> "miss", compiled |-> TRUE]
    ELSE [panic |-> FALSE, re |-> c[pattern], cache |-> c,
          lookup |-> "hit", compiled |-> FALSE]

\* A no-match result that steps over one byte.
NoMatchResultAdvanced(upos) ==
    [matched |-> FALSE, text |-> <<>>, end |-> AsI32(upos + 1)]

\* (false, String::new(), pos as i32)
NoMatchResult(upos) ==
    [matched |-> FALSE, text |-> <<>>, end |-> AsI32(upos)]

\* match re.find(haystack) { Some(m) if m.start() == 0 => ..., _ => ... }
MatchArm(upos, hay, m) ==
    IF m.some /\ m.start = 0
    THEN [matched |-> TRUE,
          text |-> SubSeq(hay, m.start + 1, m.end),
          end |-> AsI32(upos + m.end)]
    ELSE NoMatchResult(upos)

\* The call's result and the cache it leaves, with the lookup it made.
re_match(c, pattern, text, pos) ==
    LET upos == AsUsize(pos)
    IN  IF upos > Len(text)
        THEN [out |-> Ret(NoMatchResult(upos)), cache |-> c,
              lookup |-> "none", compiled |-> FALSE]
        ELSE LET g == get_or_compile(c, pattern)
                 result ==
                     IF g.panic
                     THEN Panic("re: invalid regex pattern")
                     ELSE IF ~IsCharBoundary(text, upos)
                     THEN Panic("byte index is not a char boundary")
                     ELSE LET haystack == SubSeq(text, upos + 1, Len(text))
                          IN  Ret(MatchArm(upos, haystack,
                                           Find(g.re, haystack)))
             IN  [out |-> result, cache |-> g.cache,
                  lookup |-> g.lookup, compiled |-> g.compiled]

re_is_match(c, pattern, text) ==
    LET g == get_or_compile(c, pattern)
    IN  [out |-> IF g.panic THEN Panic("re: invalid regex pattern")
                 ELSE Ret(IsMatch(g.re, text)),
         cache |-> g.cache, lookup |-> g.lookup, compiled |-> g.compiled]

(***************************************************************************)
(* Priority queue (src/heap.rs): Rc<RefCell<BinaryHeap<(Reverse<i32>,      *)
(* String)>>>                                                              *)
(***************************************************************************)
\* Most entries all queues hold together.
MaxHeap == 3

\* Priorities pushed: negative, zero and positive.
Prios == {-1, 0, 1}

\* Items pushed, as the bytes of the String: "a" and "ab".
Items == {<<97>>, <<97, 98>>}

Entries == [p : Prios, s : Items]

RECURSIVE StrLe(_, _)
\* String's Ord: s <= t, byte by byte, a proper prefix being the smaller.
StrLe(s, t) ==
    IF s = <<>> THEN TRUE
    ELSE IF t = <<>> THEN FALSE
    ELSE IF Head(s) < Head(t) THEN TRUE
    ELSE IF Head(s) > Head(t) THEN FALSE
    ELSE StrLe(Tail(s), Tail(t))

\* An order on the priority alone, without Reverse: a max-heap.
EntryLeMaxHeap(x, y) ==
    x.p < y.p \/ (x.p = y.p /\ StrLe(x.s, y.s))

\* An order on Reverse(priority) alone, blind to the item.
EntryLeIgnoresItem(x, y) == x.p >= y.p

\* (Reverse(p1), s1) <= (Reverse(p2), s2): the tuple's Ord.
EntryLe(x, y) ==
    x.p > y.p \/ (x.p = y.p /\ StrLe(x.s, y.s))

\* The Vec behind the BinaryHeap with positions i and j (from 0) exchanged.
Swap(d, i, j) ==
    [d EXCEPT ![i + 1] = d[j + 1], ![j + 1] = d[i + 1]]

RECURSIVE SiftUp(_, _, _)
\* BinaryHeap::sift_up(start, pos)
SiftUp(d, start, pos) ==
    IF pos > start
    THEN LET parent == (pos - 1) \div 2
         IN  IF EntryLe(d[pos + 1], d[parent + 1]) THEN d
             ELSE SiftUp(Swap(d, pos, parent), start, parent)
    ELSE d

RECURSIVE SiftDown(_, _)
\* The descent of BinaryHeap::sift_down_to_bottom: the hole follows the
\* greater child to the bottom; the result is the Vec and the hole's place.
SiftDown(d, pos) ==
    LET end == Len(d)
        child == 2 * pos + 1
    IN  IF end >= 2 /\ child <= end - 2
        THEN LET c == IF EntryLe(d[child + 1], d[child + 2])
                      THEN child + 1 ELSE child
             IN  SiftDown(Swap(d, pos, c), c)
        ELSE IF child = end - 1
        THEN [d |-> Swap(d, pos, child), pos |-> child]
        ELSE [d |-> d, pos |-> pos]

\* BinaryHeap::sift_down_to_bottom(pos)
SiftDownToBottom(d, pos) ==
    LET r == SiftDown(d, pos)
    IN  SiftUp(r.d, pos, r.pos)

\* A push that appends without restoring the heap order.
BinaryHeapPushNoSift(d, e) == Append(d, e)

\* BinaryHeap::push
BinaryHeapPush(d, e) == SiftUp(Append(d, e), 0, Len(d))

None == [some |-> FALSE, p |-> 0, s |-> <<>>]

Some(e) == [some |-> TRUE, p |-> e.p, s |-> e.s]

\* A pop that hands back the root and leaves it in the queue.
BinaryHeapPeek(d) ==
    IF d = <<>> THEN [item |-> None, data |-> d]
    ELSE [item |-> Some(d[1]), data |-> d]

\* A pop that returns a default entry when the queue is empty.
BinaryHeapPopDefault(d) ==
    IF d = <<>> THEN [item |-> Some([p |-> 0, s |-> <<>>]), data |-> d]
    ELSE LET rest == SubSeq(d, 1, Len(d) - 1)
         IN  IF rest = <<>> THEN [item |-> Some(d[1]), data |-> rest]
             ELSE [item |-> Some(rest[1]),
                   data |-> SiftDownToBottom([rest EXCEPT ![1] = d[Len(d)]], 0)]

\* BinaryHeap::pop, then .map(|(Reverse(p), s)| (p, s))
BinaryHeapPop(d) ==
    IF d = <<>> THEN [item |-> None, data |-> d]
    ELSE LET last == d[Len(d)]
             rest == SubSeq(d, 1, Len(d) - 1)
         IN  IF rest = <<>> THEN [item |-> Some(last), data |-> rest]
             ELSE [item |-> Some(rest[1]),
                   data |-> SiftDownToBottom([rest EXCEPT ![1] = last], 0)]

\* h.borrow().len() as i32
heap_len(d) == AsI32(Len(d))

\* h.borrow().is_empty()
heap_is_empty(d) == Len(d) = 0

Handles == {"h1", "h2"}

\* The heap allocations Rc::new can return.
Ptrs == 1..2

\* The map f with key k bound to v.
Bind(f, k, v) == [x \in DOMAIN f \cup {k} |-> IF x = k THEN v ELSE f[x]]

\* A copy that allocates a queue of its own with the same entries.
RcCloneDeep(hp, ptr) ==
    LET q == CHOOSE x \in Ptrs : x \notin DOMAIN hp
    IN  [ptr |-> q, heaps |-> Bind(hp, q, hp[ptr])]

\* Rc::clone: the same allocation.
RcClone(hp, ptr) == [ptr |-> ptr, heaps |-> hp]

\* Entries in all queues together.
RECURSIVE TotalLen(_, _)
TotalLen(hp, k) ==
    IF k = 0 THEN 0
    ELSE (IF k \in DOMAIN hp THEN Len(hp[k]) ELSE 0) + TotalLen(hp, k - 1)

(***************************************************************************)
(* String extras (src/str_ext.rs)                                          *)
(***************************************************************************)
\* A count of the bytes of s in place of its characters.
ByteLen(s) == Len(s)

\* s.chars().count(): every byte but the continuation bytes begins a char.
CharsCount(s) == Cardinality({i \in DOMAIN s : s[i] # "A9"})

\* " ".repeat(n)
Spaces(n) == [k \in 1..n |-> " "]

str_pad_center(s, width) ==
    LET len == CharsCount(s)
        w == IF width <= 0 THEN 0 ELSE AsUsize(width)
    IN  IF len >= w THEN s
        ELSE LET total_pad == w - len
                 left == total_pad \div 2
                 right == total_pad - left
             IN  Spaces(left) \o s \o Spaces(right)

(***************************************************************************)
(* Threads (src/re.rs): thread_local! REGEX_CACHE                          *)
(***************************************************************************)
Threads == {"t1", "t2"}

\* The patterns and texts the threads call the matcher with.
ThreadPatterns == {"[0-9]+", "[a-z]+", "["}

ThreadTexts == {<<"a">>, <<"1">>}

ThreadPositions == {0, 1, 2}

\* One cache in a static that every thread uses.
SharedStatic(t) == "t1"

\* REGEX_CACHE.with: the instance of the calling thread.
REGEX_CACHE(t) == t

\* A thread between calls.
ThreadIdle ==
    [stage |-> "idle", op |-> "none", pattern |-> "", text |-> <<>>, pos |-> 0,
     out |-> Ret(<<>>)]

(***************************************************************************)
(* The calls of src/builtin.rs                                             *)
(***************************************************************************)
Offsets == (-(MaxLen + 2)..(MaxLen + 2)) \cup {I64_MIN, I64_MAX}

Steps == (-MaxStep..MaxStep) \cup {I64_MIN, I64_MAX}

NoCache == <<>>

\* Compilations are counted up to this many per pattern.
MaxCompiles == 2

\* The counts after a call that did or did not make Regex::new return a
\* matcher for the pattern.
Counted(n, pattern, compiled) ==
    IF compiled
    THEN [n EXCEPT ![pattern] = Min(@ + 1, MaxCompiles)]
    ELSE n

Init ==
    /\ op = "none"
    /\ args = <<>>
    /\ out = Ret(<<>>)
    /\ cache = NoCache
    /\ compiles = [p \in Patterns |-> 0]
    /\ lookup = "none"
    /\ heaps = <<>>
    /\ handles = <<>>
    /\ copyOf = <<>>
    /\ tpc = [t \in Threads |-> ThreadIdle]
    /\ tcache = [t \in Threads |-> NoCache]
    /\ tcompiles = [t \in Threads |-> [p \in Patterns |-> 0]]

Idle == op = "none"

HomunIdx ==
    /\ Idle
    /\ \E v \in Vecs, key \in I32 :
        /\ op' = "homun_idx"
        /\ args' = [v |-> v, key |-> key]
        /\ out' = homun_idx(v, key)
    /\ UNCHANGED <<reVars, heapVars, thrVars>>

HomunSlice ==
    /\ Idle
    /\ \E v \in Vecs, start \in Offsets, end \in Offsets, step \in Steps,
          checks \in BOOLEAN :
        /\ op' = "homun_slice"
        /\ args' = [v |-> v, start |-> start, end |-> end, step |-> step,
                    checks |-> checks]
        /\ out' = homun_slice(v, start, end, step, checks)
    /\ UNCHANGED <<reVars, heapVars, thrVars>>

HomunConcat ==
    /\ Idle
    /\ \E a \in Vecs, b \in Vecs :
        /\ op' = "homun_concat"
        /\ args' = [a |-> a, b |-> b]
        /\ out' = Ret(homun_concat(a, b))
    /\ UNCHANGED <<reVars, heapVars, thrVars>>

HomunContains ==
    /\ Idle
    /\ \E kind \in ContainsKinds :
        \E coll \in Colls(kind), item \in Keys :
            /\ op' = "homun_contains"
            /\ args' = [kind |-> kind, coll |-> coll, item |-> item]
            /\ out' = Ret(homun_contains(kind, coll, item))
    /\ UNCHANGED <<reVars, heapVars, thrVars>>

ReMatch ==
    /\ Idle
    /\ \E pattern \in Patterns, text \in Texts, pos \in I32 :
        LET r == re_match(cache, pattern, text, pos)
        IN  /\ op' = "re_match"
            /\ args' = [pattern |-> pattern, text |-> text, pos |-> pos]
            /\ out' = r.out
            /\ cache' = r.cache
            /\ lookup' = r.lookup
            /\ compiles' = Counted(compiles, pattern, r.compiled)
    /\ UNCHANGED <<heapVars, thrVars>>

ReIsMatch ==
    /\ Idle
    /\ \E pattern \in Patterns, text \in Texts :
        LET r == re_is_match(cache, pattern, text)
        IN  /\ op' = "re_is_match"
            /\ args' = [pattern |-> pattern, text |-> text]
            /\ out' = r.out
            /\ cache' = r.cache
            /\ lookup' = r.lookup
            /\ compiles' = Counted(compiles, pattern, r.compiled)
    /\ UNCHANGED <<heapVars, thrVars>>

\* h := heap_new()
HeapNew ==
    /\ Idle
    /\ \E h \in Handles :
        /\ h \notin DOMAIN handles
        /\ \E q \in Ptrs :
            /\ q \notin DOMAIN heaps
            /\ \A x \in Ptrs : x < q => x \in DOMAIN heaps
            /\ heaps' = Bind(heaps, q, <<>>)
            /\ handles' = Bind(handles, h, q)
        /\ copyOf' = Bind(copyOf, h, h)
        /\ op' = "heap_new"
        /\ args' = [h |-> h]
        /\ out' = Ret(<<>>)
    /\ UNCHANGED <<reVars, thrVars>>

\* h2 := h1 (every use of a variable is h.clone())
HeapClone ==
    /\ Idle
    /\ \E src \in Handles, dst \in Handles :
        /\ src \in DOMAIN handles
        /\ dst \notin DOMAIN handles
        /\ LET r == RcClone(heaps, handles[src])
           IN  /\ heaps' = r.heaps
               /\ handles' = Bind(handles, dst, r.ptr)
        /\ copyOf' = Bind(copyOf, dst, copyOf[src])
        /\ op' = "clone"
        /\ args' = [h |-> dst, src |-> src]
        /\ out' = Ret(<<>>)
    /\ UNCHANGED <<reVars, thrVars>>

HeapPush ==
    /\ Idle
    /\ TotalLen(heaps, Cardinality(Ptrs)) < MaxHeap
    /\ \E h \in Handles, e \in Entries :
        /\ h \in DOMAIN handles
        /\ heaps' = [heaps EXCEPT ![handles[h]] = BinaryHeapPush(@, e)]
        /\ op' = "heap_push"
        /\ args' = [h |-> h, priority |-> e.p, item |-> e.s]
        /\ out' = Ret(<<>>)
    /\ UNCHANGED <<reVars, handles, copyOf, thrVars>>

HeapPop ==
    /\ Idle
    /\ \E h \in Handles :
        /\ h \in DOMAIN handles
        /\ LET r == BinaryHeapPop(heaps[handles[h]])
           IN  /\ heaps' = [heaps EXCEPT ![handles[h]] = r.data]
               /\ out' = Ret(r.item)
        /\ op' = "heap_pop"
        /\ args' = [h |-> h]
    /\ UNCHANGED <<reVars, handles, copyOf, thrVars>>

HeapLen ==
    /\ Idle
    /\ \E h \in Handles :
        /\ h \in DOMAIN handles
        /\ op' = "heap_len"
        /\ args' = [h |-> h]
        /\ out' = Ret(heap_len(heaps[handles[h]]))
    /\ UNCHANGED <<reVars, heapVars, thrVars>>

HeapIsEmpty ==
    /\ Idle
    /\ \E h \in Handles :
        /\ h \in DOMAIN handles
        /\ op' = "heap_is_empty"
        /\ args' = [h |-> h]
        /\ out' = Ret(heap_is_empty(heaps[handles[h]]))
    /\ UNCHANGED <<reVars, heapVars, thrVars>>

StrPadCenter ==
    /\ Idle
    /\ \E s \in Texts, width \in I32 :
        /\ op' = "str_pad_center"
        /\ args' = [s |-> s, width |-> width]
        /\ out' = Ret(str_pad_center(s, width))
    /\ UNCHANGED <<reVars, heapVars, thrVars>>

\* A thread enters re_match or re_is_match.
ThreadCall(t) ==
    /\ tpc[t].stage = "idle"
    /\ \E o \in {"re_match", "re_is_match"}, pattern \in ThreadPatterns,
          text \in ThreadTexts, pos \in ThreadPositions :
        /\ o = "re_is_match" => pos = 0
        /\ tpc' = [tpc EXCEPT ![t] = [stage |-> "call", op |-> o,
                                      pattern |-> pattern, text |-> text,
                                      pos |-> pos, out |-> Ret(<<>>)]]
    /\ UNCHANGED <<op, args, out, reVars, heapVars, tcache, tcompiles>>

\* re_match's check of pos, then map.contains_key(pattern) on the thread's
\* cache.
ThreadLookup(t) ==
    /\ tpc[t].stage = "call"
    /\ LET c == tpc[t]
           map == tcache[REGEX_CACHE(t)]
       IN  IF c.op = "re_match" /\ AsUsize(c.pos) > Len(c.text)
           THEN tpc' = [tpc EXCEPT ![t].stage = "done",
                            ![t].out = re_match(map, c.pattern, c.text, c.pos).out]
           ELSE tpc' = [tpc EXCEPT ![t].stage =
                            IF c.pattern \in DOMAIN map THEN "get" ELSE "compile"]
    /\ UNCHANGED <<op, args, out, reVars, heapVars, tcache, tcompiles>>

\* Regex::new(pattern), then the panic or map.insert into the thread's cache.
ThreadCompile(t) ==
    /\ tpc[t].stage = "compile"
    /\ LET c == tpc[t]
           slot == REGEX_CACHE(t)
           g == get_or_compile(tcache[slot], c.pattern)
       IN  /\ tcache' = [tcache EXCEPT ![slot] = g.cache]
           /\ tcompiles' = [tcompiles EXCEPT ![slot] =
                                Counted(@, c.pattern, g.compiled)]
           /\ tpc' = IF g.panic
                     THEN [tpc EXCEPT ![t].stage = "done",
                               ![t].out = Panic("re: invalid regex pattern")]
                     ELSE [tpc EXCEPT ![t].stage = "get"]
    /\ UNCHANGED <<op, args, out, reVars, heapVars>>

\* map.get(pattern).unwrap().clone(), then the match with that matcher.
ThreadGet(t) ==
    /\ tpc[t].stage = "get"
    /\ LET c == tpc[t]
           map == tcache[REGEX_CACHE(t)]
       IN  tpc' = [tpc EXCEPT ![t].stage = "done",
                       ![t].out = IF c.op = "re_match"
                                  THEN re_match(map, c.pattern, c.text, c.pos).out
                                  ELSE re_is_match(map, c.pattern, c.text).out]
    /\ UNCHANGED <<op, args, out, reVars, heapVars, tcache, tcompiles>>

\* The thread's caller takes the result (or catches the panic).
ThreadReturn(t) ==
    /\ tpc[t].stage = "done"
    /\ tpc' = [tpc EXCEPT ![t] = ThreadIdle]
    /\ UNCHANGED <<op, args, out, reVars, heapVars, tcache, tcompiles>>

\* The caller takes the result; the next call starts from the state that
\* outlives calls.
Return ==
    /\ ~Idle
    /\ op' = "none"
    /\ args' = <<>>
    /\ out' = Ret(<<>>)
    /\ lookup' = "none"
    /\ UNCHANGED <<cache, compiles, heapVars, thrVars>>

Next ==
    \/ HomunIdx
    \/ HomunSlice
    \/ HomunConcat
    \/ HomunContains
    \/ Return

Spec == Init /\ [][Next]_vars

\* The calls of src/re.rs, made one after another by one thread.
NextRe ==
    \/ ReMatch
    \/ ReIsMatch
    \/ Return

SpecRe == Init /\ [][NextRe]_vars

\* The calls of src/re.rs made by several threads, interleaved at the cache
\* accesses.
NextThreads ==
    \E t \in Threads :
        \/ ThreadCall(t)
        \/ ThreadLookup(t)
        \/ ThreadCompile(t)
        \/ ThreadGet(t)
        \/ ThreadReturn(t)

SpecThreads == Init /\ [][NextThreads]_vars

\* The calls of src/str_ext.rs.
NextStr ==
    \/ StrPadCenter
    \/ Return

SpecStr == Init /\ [][NextStr]_vars

\* The calls of src/heap.rs, made through any of the handles.
NextHeap ==
    \/ HeapNew
    \/ HeapClone
    \/ HeapPush
    \/ HeapPop
    \/ HeapLen
    \/ HeapIsEmpty
    \/ Return

SpecHeap == Init /\ [][NextHeap]_vars

(***************************************************************************)
(* Properties of indexing, slicing, concatenation and membership           *)
(***************************************************************************)
IsSlice == op = "homun_slice"

\* s reversed, element by element.
IsReverseOf(r, s) ==
    /\ Len(r) = Len(s)
    /\ \A k \in 0..(Len(s) - 1) : r[k + 1] = s[Len(s) - 1 - k + 1]

\* clamp(x < 0 ? len + x : x, 0, len)
ClampOffset(len, x) ==
    LET y == IF x < 0 THEN len + x ELSE x
    IN  IF y < 0 THEN 0 ELSE IF y > len THEN len ELSE y

\* C1, as stated: for every sequence s, Slice(s, 0, len(s), -1) is s in
\* reverse order.
C1_ExplicitBoundsReverse ==
    (IsSlice /\ args.start = 0 /\ args.end = Len(args.v) /\ args.step = -1)
        => (~out.panic /\ IsReverseOf(out.val, args.v))

\* C1, amended: for every sequence s, Slice(s, 0, len(s), -1) is the empty
\* sequence (start 0 stands for "from the natural end" and the lower bound
\* len(s) leaves nothing to walk down to).
C1_ExplicitBoundsEmpty ==
    (IsSlice /\ args.start = 0 /\ args.end = Len(args.v) /\ args.step = -1)
        => (~out.panic /\ out.val = <<>>)

C1_Witness ==
    /\ IsSlice /\ args.start = 0 /\ args.end = Len(args.v) /\ args.step = -1
    /\ Len(args.v) >= 2
    /\ out.val = <<>>

\* Python's s[start:end:step] for step < 0, with start = 0 and end = i64::MAX
\* standing for the omitted bounds.
RECURSIVE PyDown(_, _, _, _)
PyDown(s, i, stop, step) ==
    IF i <= stop THEN <<>>
    ELSE <<s[i + 1]>> \o PyDown(s, i + step, stop, step)

PyBound(len, x) ==
    IF x < 0 THEN (IF len + x < -1 THEN -1 ELSE len + x)
    ELSE (IF x > len - 1 THEN len - 1 ELSE x)

PySliceDown(s, start, end, step) ==
    LET first == IF start = 0 THEN Len(s) - 1 ELSE PyBound(Len(s), start)
        stop == IF end = I64_MAX THEN -1 ELSE PyBound(Len(s), end)
    IN  PyDown(s, first, stop, step)

\* C2: for every step < 0, Slice(s, start, end, step) equals Python's
\* s[start:end:step]: it begins with the element AT the start index and
\* keeps the indices strictly above the end index.
C2_NegativeStepIsPython ==
    (IsSlice /\ args.step < 0 /\ ~out.panic)
        => out.val = PySliceDown(args.v, args.start, args.end, args.step)

\* C3: the default-bound reverse Slice(s, 0, i64::MAX, -1) is s reversed,
\* the empty sequence included.
C3_DefaultBoundsReverse ==
    (IsSlice /\ args.start = 0 /\ args.end = I64_MAX /\ args.step = -1)
        => (~out.panic /\ IsReverseOf(out.val, args.v))

C3_Witness ==
    /\ IsSlice /\ args.start = 0 /\ args.end = I64_MAX /\ args.step = -1
    /\ Len(args.v) >= 2 /\ args.v[1] # args.v[2]
    /\ Len(out.val) = Len(args.v) /\ out.val[1] = args.v[Len(args.v)]

\* C4: for every step > 0, Slice(s, start, end, step) is exactly the elements
\* at s', s'+step, s'+2*step, ... below e' (x' the clamped offset), empty when
\* s' >= e', and Slice(s, 0, len(s), 1) = s.
C4_PositiveStep ==
    (IsSlice /\ args.step > 0)
        => LET len == Len(args.v)
               s1 == ClampOffset(len, args.start)
               e1 == ClampOffset(len, args.end)
               n == IF s1 >= e1 THEN 0 ELSE ((e1 - s1 - 1) \div args.step) + 1
           IN  /\ ~out.panic
               /\ Len(out.val) = n
               /\ \A k \in 0..(n - 1) :
                      out.val[k + 1] = args.v[s1 + k * args.step + 1]
               /\ (args.start = 0 /\ args.end = len /\ args.step = 1)
                      => out.val = args.v

C4_Witness ==
    /\ IsSlice /\ args.step = 2 /\ args.start = -3 /\ args.end = MaxLen + 2
    /\ Len(args.v) = 3 /\ args.v[1] # args.v[2]
    /\ out.val = <<args.v[1], args.v[3]>>

\* C5: for every start and end, Slice(s, start, end, 0) is the empty sequence
\* and not an error.
C5_ZeroStepEmpty ==
    (IsSlice /\ args.step = 0) => (~out.panic /\ out.val = <<>>)

C5_Witness ==
    /\ IsSlice /\ args.step = 0 /\ args.start = 0 /\ args.end = Len(args.v)
    /\ Len(args.v) > 0
    /\ ~out.panic /\ out.val = <<>>

\* C6: Index(s, i) is s[i] for 0 <= i < len(s), s[len(s) + i] for
\* -len(s) <= i < 0, and fails with IndexOutOfBounds for every other i.
C6_IndexWrapsOnce ==
    (op = "homun_idx")
        => LET n == Len(args.v)
               i == args.key
           IN  IF 0 <= i /\ i < n THEN out = Ret(args.v[i + 1])
               ELSE IF -n <= i /\ i < 0 THEN out = Ret(args.v[n + i + 1])
               ELSE out = Panic("IndexOutOfBounds")

C6_Witness ==
    /\ op = "homun_idx"
    /\ Len(args.v) >= 2
    /\ args.key < -Len(args.v)
    /\ out = Panic("IndexOutOfBounds")

\* C7, as stated: Concat(a, b) has length len(a) + len(b), and
\* Index(Concat(a, b), i) = Index(a, i) for every i < len(a) that Index
\* accepts on a, negative indices included.
C7_ConcatIndexAllAccepted ==
    (op = "homun_concat")
        => /\ ~out.panic
           /\ Len(out.val) = Len(args.a) + Len(args.b)
           /\ \A i \in I32 :
                  (i < Len(args.a) /\ ~homun_idx(args.a, i).panic)
                      => homun_idx(out.val, i) = homun_idx(args.a, i)

\* C7, amended: Concat(a, b) has length len(a) + len(b);
\* Index(Concat(a, b), i) = Index(a, i) for 0 <= i < len(a); a negative
\* index i that Index accepts on a names the same element at i - len(b).
C7_ConcatIndexPrefix ==
    (op = "homun_concat")
        => /\ ~out.panic
           /\ Len(out.val) = Len(args.a) + Len(args.b)
           /\ \A i \in 0..(Len(args.a) - 1) :
                  /\ ~homun_idx(args.a, i).panic
                  /\ homun_idx(out.val, i) = homun_idx(args.a, i)
           /\ \A i \in (-Len(args.a))..(-1) :
                  /\ ~homun_idx(args.a, i).panic
                  /\ homun_idx(out.val, i - Len(args.b)) = homun_idx(args.a, i)

C7_Witness ==
    /\ op = "homun_concat"
    /\ Len(args.a) >= 2 /\ Len(args.b) >= 1
    /\ args.a[Len(args.a)] # args.b[Len(args.b)]
    /\ homun_idx(out.val, Len(args.a) - 1) = Ret(args.a[Len(args.a)])
    /\ homun_idx(out.val, -1) = Ret(args.b[Len(args.b)])

\* C8: Contains is true of a sequence exactly when some element equals the
\* item, of a set or mapping exactly when the item is a stored key (values
\* are never consulted), and the string-keyed variants answer as the generic
\* ones do.
C8_ContainsIsMembership ==
    (op = "homun_contains")
        => LET c == args.coll
               x == args.item
           IN  /\ ~out.panic
               /\ args.kind \in {"Vec", "VecString"}
                      => /\ out.val = (\E k \in 1..Len(c) : c[k] = x)
                         /\ VecStringContains(c, x) = VecContains(c, x)
               /\ args.kind = "HashSet" => out.val = (x \in c)
               /\ args.kind \in {"HashMap", "HashMapString"}
                      => /\ out.val = (x \in DOMAIN c)
                         /\ HashMapStringContains(c, x) = HashMapContains(c, x)

C8_Witness ==
    /\ op = "homun_contains"
    /\ args.kind = "HashMap"
    /\ args.item \notin DOMAIN args.coll
    /\ \E k \in DOMAIN args.coll : args.coll[k] = args.item
    /\ out.val = FALSE

(***************************************************************************)
(* Properties of the anchored match                                        *)
(***************************************************************************)
\* The pattern has a match in the text that begins exactly at byte offset
\* pos: the start-of-text assertion is judged against the whole text.
HasMatchAt(pattern, text, pos) ==
    /\ Compile(pattern).ok
    /\ IsCharBoundary(text, pos)
    /\ MatchEnd(Compile(pattern).prog, 1, text, pos) # -1

\* C9: for 0 <= pos <= length(text), MatchAt reports matched = true if and
\* only if the pattern has a match beginning exactly at byte offset pos; on
\* success the text is text[pos..end_offset], end_offset = pos + its length,
\* and pos <= end_offset <= length(text).
C9_MatchedIffMatchBeginsAtPos ==
    (op = "re_match" /\ 0 <= args.pos /\ args.pos <= Len(args.text)
        /\ ~out.panic)
        => /\ out.val.matched
                  <=> HasMatchAt(args.pattern, args.text, args.pos)
           /\ out.val.matched
                  => /\ out.val.text
                            = SubSeq(args.text, args.pos + 1, out.val.end)
                     /\ out.val.end = args.pos + Len(out.val.text)
                     /\ args.pos <= out.val.end
                     /\ out.val.end <= Len(args.text)

\* C10: whenever MatchAt reports matched = false, because pos > length(text)
\* or because no match begins at pos, the text is empty and end_offset is the
\* input pos, and that is a returned value, not a failure.
C10_NoMatchLeavesPos ==
    (op = "re_match" /\ ~out.panic /\ ~out.val.matched)
        => /\ out.val.text = <<>>
           /\ out.val.end = args.pos

C10_Witness ==
    /\ op = "re_match"
    /\ args.pos = Len(args.text) + 1
    /\ Compile(args.pattern).ok
    /\ out = Ret([matched |-> FALSE, text |-> <<>>, end |-> args.pos])

(***************************************************************************)
(* Shared priority queue                                                   *)
(***************************************************************************)
\* The entries of a queue with their multiplicities.
BagOf(d) ==
    [e \in {d[i] : i \in DOMAIN d} |-> Cardinality({i \in DOMAIN d : d[i] = e})]

\* The queue a handle refers to, now and after the step.
HeapOf(h) == heaps[handles[h]]

HeapOfNext(h) == heaps'[handles'[h]]

\* The entry a pop returned.
Popped == [p |-> out.val.p, s |-> out.val.s]

PoppedNext == [p |-> out'.val.p, s |-> out'.val.s]

\* C11: a pop on a non-empty queue, after any pushes and pops, returns an
\* entry of the queue whose priority is the least of all the entries the
\* queue holds at that moment, and removes exactly that one entry.
C11_PopReturnsMinimum ==
    [][(op' = "heap_pop" /\ HeapOf(args'.h) # <<>>) =>
        LET before == HeapOf(args'.h)
            after == HeapOfNext(args'.h)
        IN  /\ out'.val.some
            /\ \A i \in DOMAIN before : out'.val.p <= before[i].p
            /\ BagOf(before) = BagOf(Append(after, PoppedNext))]_vars

\* A pop returned a negative priority and left two entries of greater,
\* different priorities behind.
C11_Witness ==
    /\ op = "heap_pop"
    /\ out.val.some
    /\ out.val.p < 0
    /\ LET d == HeapOf(args.h)
       IN  /\ Len(d) = 2
           /\ d[1].p # d[2].p
           /\ \A i \in DOMAIN d : d[i].p > out.val.p

\* What a handle lets its holder observe: Len, IsEmpty and the next Pop.
Observed(h) ==
    <<heap_len(HeapOf(h)), heap_is_empty(HeapOf(h)), BinaryHeapPop(HeapOf(h))>>

\* Handles a and b are copies of the handle one heap_new() returned.
Aliases(a, b) ==
    a \in DOMAIN handles /\ b \in DOMAIN handles /\ copyOf[a] = copyOf[b]

\* C12: handles obtained by copying a handle refer to one queue: Len, IsEmpty
\* and Pop observe the same contents through each of them, an entry pushed
\* through one is at once in the queue of the others, and an entry popped
\* through one is gone for all.
C12_CopiesShareOneQueue ==
    \A a \in Handles, b \in Handles :
        Aliases(a, b) =>
            /\ handles[a] = handles[b]
            /\ Observed(a) = Observed(b)
            /\ (op = "heap_push" /\ args.h = a) =>
                   \E i \in DOMAIN HeapOf(b) :
                       HeapOf(b)[i] = [p |-> args.priority, s |-> args.item]
            /\ (op = "heap_pop" /\ args.h = a /\ out.val.some) =>
                   BagOf(HeapOf(b)) = BagOf(HeapOf(a))

\* An entry was pushed through h1 while h2 is a copy of h1.
C12_Witness ==
    /\ Aliases("h1", "h2")
    /\ copyOf["h2"] = "h1"
    /\ op = "heap_push"
    /\ args.h = "h1"
    /\ Len(HeapOf("h2")) = 2

RECURSIVE Drain(_)
\* The entries a loop of pops returns until a pop returns absent.
Drain(d) ==
    LET r == BinaryHeapPop(d)
    IN  IF r.item.some
        THEN <<[p |-> r.item.p, s |-> r.item.s]>> \o Drain(r.data)
        ELSE <<>>

\* C13: after any pushes (and pops), popping a queue until absent returns the
\* priorities in non-decreasing order and returns exactly the entries the
\* queue held, each as often as it was held; the loop ends after Len pops.
C13_DrainIsSortedAndComplete ==
    \A q \in DOMAIN heaps :
        LET d == heaps[q]
            popped == Drain(d)
        IN  /\ \A i \in DOMAIN popped, j \in DOMAIN popped :
                   i < j => popped[i].p <= popped[j].p
            /\ BagOf(popped) = BagOf(d)
            /\ Len(popped) = heap_len(d)

\* After a push the queue holds three entries, two of them equal, and its
\* Vec does not hold them in pop order.
C13_Witness ==
    /\ op = "heap_push"
    /\ LET d == HeapOf(args.h)
       IN  /\ Len(d) = 3
           /\ d[1] = d[3]
           /\ d[1] # d[2]
           /\ Drain(d) # d

\* C14: a pop on an empty queue, fresh or emptied, returns absent and does
\* not fail, leaves every queue as it was (Len 0, IsEmpty true), and a push
\* that follows puts its entry in the queue.
C14_PopOnEmptyIsAbsent ==
    [][/\ (op' = "heap_pop" /\ HeapOf(args'.h) = <<>>) =>
            /\ out' = Ret(None)
            /\ heaps' = heaps
            /\ heap_len(HeapOfNext(args'.h)) = 0
            /\ heap_is_empty(HeapOfNext(args'.h))
       /\ (op' = "heap_push" /\ HeapOf(args'.h) = <<>>) =>
            /\ ~out'.panic
            /\ HeapOfNext(args'.h) = <<[p |-> args'.priority, s |-> args'.item]>>
            /\ heap_len(HeapOfNext(args'.h)) = 1]_vars

\* A pop returned absent on an empty queue while the other queue holds
\* entries.
C14_Witness ==
    /\ op = "heap_pop"
    /\ out = Ret(None)
    /\ HeapOf(args.h) = <<>>
    /\ \E q \in DOMAIN heaps : heaps[q] # <<>>

\* C15: Len is the number of pushes less the number of successful pops: a new
\* queue has Len 0, each push (of an entry the queue already holds, too)
\* raises Len by exactly 1, each successful pop lowers it by exactly 1, every
\* other call leaves it alone; Len and IsEmpty report it, IsEmpty holding
\* exactly when Len is 0, and leave the contents unchanged.
C15_LenCountsPushesLessPops ==
    [][/\ op' = "heap_new" => heap_len(HeapOfNext(args'.h)) = 0
       /\ op' = "heap_push" =>
            heap_len(HeapOfNext(args'.h)) = heap_len(HeapOf(args'.h)) + 1
       /\ (op' = "heap_pop" /\ out'.val.some) =>
            heap_len(HeapOfNext(args'.h)) = heap_len(HeapOf(args'.h)) - 1
       /\ (op' = "heap_pop" /\ ~out'.val.some) => heaps' = heaps
       /\ op' \in {"heap_push", "heap_pop"} =>
            \A q \in DOMAIN heaps : q # handles[args'.h] => heaps'[q] = heaps[q]
       /\ op' = "heap_len" =>
            /\ heaps' = heaps
            /\ out' = Ret(Len(HeapOf(args'.h)))
       /\ op' = "heap_is_empty" =>
            /\ heaps' = heaps
            /\ out'.val = (heap_len(HeapOf(args'.h)) = 0)
       /\ op' \in {"clone", "none"} => heaps' = heaps]_vars

\* A push of an entry the queue already held raised its Len from 2 to 3.
C15_Witness ==
    /\ op = "heap_push"
    /\ LET d == HeapOf(args.h)
           e == [p |-> args.priority, s |-> args.item]
       IN  /\ heap_len(d) = 3
           /\ Cardinality({i \in DOMAIN d : d[i] = e}) >= 2

(***************************************************************************)
(* Pattern cache                                                           *)
(***************************************************************************)
\* C16: the cache is transparent: what re_match and re_is_match return (or
\* that they panic) for given arguments is what they return with an empty
\* cache, whatever the cache holds from the calls before.
C16_CacheTransparent ==
    /\ op = "re_match" =>
           out = re_match(NoCache, args.pattern, args.text, args.pos).out
    /\ op = "re_is_match" =>
           out = re_is_match(NoCache, args.pattern, args.text).out

\* A re_match found its pattern among at least three cached ones and
\* matched.
C16_Witness ==
    /\ op = "re_match"
    /\ lookup = "hit"
    /\ Cardinality(DOMAIN cache) >= 3
    /\ out.val.matched

\* C17: the cache holds one entry per cached pattern string, Regex::new has
\* returned a matcher at most once for each pattern string, and the cache
\* only grows: no call removes, replaces or recompiles an entry.
C17_CacheGrowsOnly ==
    [][/\ DOMAIN cache \subseteq DOMAIN cache'
       /\ \A p \in DOMAIN cache : cache'[p] = cache[p]
       /\ \A p \in Patterns :
            /\ compiles'[p] <= 1
            /\ compiles'[p] = (IF p \in DOMAIN cache' THEN 1 ELSE 0)
            /\ compiles'[p] # compiles[p] => p \notin DOMAIN cache
       /\ lookup' = "hit" => (cache' = cache /\ compiles' = compiles)]_vars

\* A call found its pattern in a cache that holds every valid pattern.
C17_Witness ==
    /\ lookup = "hit"
    /\ compiles[args.pattern] = 1
    /\ \A p \in Patterns : Compile(p).ok => p \in DOMAIN cache

\* C19: a call that reaches get_or_compile with an invalid pattern fails with
\* the invalid-pattern panic instead of using a matcher, adds no cache entry
\* (the cache after the call is the cache before it), and so fails in the same
\* way on every later use of the pattern.
C19_InvalidPatternFailsUncached ==
    [][(op' \in {"re_match", "re_is_match"} /\ lookup' # "none"
            /\ ~Compile(args'.pattern).ok) =>
        /\ out' = Panic("re: invalid regex pattern")
        /\ lookup' = "miss"
        /\ cache' = cache
        /\ args'.pattern \notin DOMAIN cache'
        /\ compiles' = compiles]_vars

\* A call with the invalid pattern panicked while the cache holds valid
\* patterns.
C19_Witness ==
    /\ op = "re_match"
    /\ args.pattern = "["
    /\ out.panic
    /\ lookup = "miss"
    /\ Cardinality(DOMAIN cache) >= 2

\* What a thread's call returns when nothing is cached.
UncachedResult(c) ==
    IF c.op = "re_match" THEN re_match(NoCache, c.pattern, c.text, c.pos).out
    ELSE re_is_match(NoCache, c.pattern, c.text).out

\* C18: each thread has a cache of its own: in every interleaving of the
\* cache accesses of several threads, a step of one thread leaves the other
\* threads' caches (and calls) as they were and reads only its own cache, so
\* the first uses of one pattern by two threads at the same time insert it
\* once in each thread's cache, and every call returns what it returns alone.
C18_ThreadCachesIndependent ==
    [][\A t \in Threads :
        tpc'[t].stage # tpc[t].stage =>
            LET c == tpc[t]
            IN  /\ \A u \in Threads \ {t} :
                       /\ tcache'[u] = tcache[u]
                       /\ tcompiles'[u] = tcompiles[u]
                       /\ tpc'[u] = tpc[u]
                /\ (c.stage = "call" /\ tpc'[t].stage # "done") =>
                       (tpc'[t].stage = "get" <=> c.pattern \in DOMAIN tcache[t])
                /\ (c.stage = "compile" /\ Compile(c.pattern).ok) =>
                       /\ c.pattern \notin DOMAIN tcache[t]
                       /\ DOMAIN tcache'[t] = DOMAIN tcache[t] \cup {c.pattern}
                       /\ tcompiles'[t][c.pattern] = 1
                /\ tpc'[t].stage = "done" => tpc'[t].out = UncachedResult(c)]_vars

\* Both threads are in their first use of one pattern: t1 has inserted it in
\* its cache, t2 has missed it in its own and is about to compile it.
C18_Witness ==
    /\ tpc["t1"].stage = "get"
    /\ tpc["t2"].stage = "compile"
    /\ tpc["t1"].pattern = tpc["t2"].pattern
    /\ DOMAIN tcache["t1"] = {tpc["t1"].pattern}
    /\ tcache["t2"] = NoCache
    /\ tcompiles["t1"][tpc["t1"].pattern] = 1

(***************************************************************************)
(* Slice length                                                            *)
(***************************************************************************)
\* C20: the length of Slice(s, start, end, step) depends only on len(s),
\* start, end and step: every sequence of the same length, whatever its
\* elements, gives a result of the same length (or fails alike), and that
\* length is at least 0 and at most len(s).
C20_SliceLengthIgnoresElements ==
    IsSlice =>
        /\ \A w \in Vecs :
               Len(w) = Len(args.v) =>
                   LET r == homun_slice(w, args.start, args.end, args.step,
                                        args.checks)
                   IN  /\ r.panic = out.panic
                       /\ ~out.panic => Len(r.val) = Len(out.val)
        /\ ~out.panic => (0 <= Len(out.val) /\ Len(out.val) <= Len(args.v))

\* A backward slice took two of three elements that are not all equal.
C20_Witness ==
    /\ IsSlice /\ args.step = -2
    /\ Len(args.v) = 3 /\ args.v[1] # args.v[2]
    /\ ~out.panic /\ Len(out.val) = 2

(***************************************************************************)
(* String padding                                                          *)
(***************************************************************************)
\* The characters of a UTF-8 string: its bytes less one for every two-byte
\* character.
NumChars(s) == Len(s) - Cardinality({i \in DOMAIN s : s[i] = "C3"})

\* C21: for a string s of n characters and a 32-bit width w, str_pad_center
\* returns s unchanged when w <= n (w <= 0 included); otherwise it returns
\* floor((w - n) / 2) spaces, s, and the remaining spaces, so that the result
\* has exactly w characters and the odd space is on the right.
C21_PadCenter ==
    op = "str_pad_center" =>
        LET s == args.s
            w == args.width
            n == NumChars(s)
            l == (w - n) \div 2
        IN  /\ ~out.panic
            /\ IF w <= n THEN out.val = s
               ELSE /\ out.val = Spaces(l) \o s \o Spaces(w - n - l)
                    /\ NumChars(out.val) = w
                    /\ w - n - l >= l

\* A string with a two-byte character got one space on the left and two on
\* the right.
C21_Witness ==
    /\ op = "str_pad_center"
    /\ args.s = <<"C3", "A9", "a">>
    /\ args.width = 5
    /\ out.val = <<" ", "C3", "A9", "a", " ", " ">>

(***************************************************************************)
(* Tie-breaking in the priority queue                                      *)
(***************************************************************************)
\* The queue that pushing the entries of d in the order f (a permutation of
\* d's positions) builds.
RECURSIVE PushAll(_, _, _)
PushAll(d, f, k) ==
    IF k = 0 THEN <<>>
    ELSE BinaryHeapPush(PushAll(d, f, k - 1), d[f[k]])

PushOrders(n) ==
    {f \in [1..n -> 1..n] : \A i \in 1..n : \E j \in 1..n : f[j] = i}

\* C22: ties are broken by item content: among the entries of least priority
\* a pop returns the one with the lexicographically greatest item, so queues
\* that hold the same entries pop them in the same order whatever the order
\* the entries were pushed in.
C22_TiesByGreatestItem ==
    \A q \in DOMAIN heaps :
        LET d == heaps[q]
            r == BinaryHeapPop(d)
        IN  /\ d # <<>> =>
                   \A i \in DOMAIN d :
                       d[i].p = r.item.p => StrLe(d[i].s, r.item.s)
            /\ \A f \in PushOrders(Len(d)) :
                   Drain(PushAll(d, f, Len(d))) = Drain(d)

\* A queue of three entries whose two least-priority entries differ in their
\* items, and which another push order lays out differently.
C22_Witness ==
    /\ op = "heap_push"
    /\ LET d == HeapOf(args.h)
       IN  /\ Len(d) = 3
           /\ \E i \in DOMAIN d :
                  /\ d[i].p = d[1].p
                  /\ d[i].s # d[1].s
           /\ \E f \in PushOrders(3) : PushAll(d, f, 3) # d

(***************************************************************************)
(* Negative offsets of re_match                                            *)
(***************************************************************************)
\* C23: for every negative pos, re_match does not fail and returns
\* (false, "", pos): the offset counts as beyond the end of the text and comes
\* back unchanged from the conversion to usize and back, and the pattern,
\* valid or not, is neither looked up, compiled nor cached.
C23_NegativePosIsNoMatch ==
    [][(op' = "re_match" /\ args'.pos < 0) =>
        /\ out' = Ret([matched |-> FALSE, text |-> <<>>, end |-> args'.pos])
        /\ lookup' = "none"
        /\ cache' = cache
        /\ compiles' = compiles]_vars

\* A re_match at the least i32 offset with the invalid pattern, which is not
\* cached, returned no match at that offset.
C23_Witness ==
    /\ op = "re_match"
    /\ args.pos = I32_MIN
    /\ args.pattern = "["
    /\ Len(args.text) > 0
    /\ out = Ret([matched |-> FALSE, text |-> <<>>, end |-> I32_MIN])
    /\ lookup = "none"

(***************************************************************************)
(* Totality of slicing                                                     *)
(***************************************************************************)
\* C24: Slice is total: for every sequence and every start, end and step of
\* the i64 range, the least and greatest values included, homun_slice returns
\* a sequence and does not fail; the elements it returns are elements of s,
\* no more than s has.
C24_SliceTotal ==
    IsSlice =>
        /\ ~out.panic
        /\ Len(out.val) <= Len(args.v)
        /\ \A k \in DOMAIN out.val : \E i \in DOMAIN args.v : out.val[k] = args.v[i]

====
